---- MODULE Spec2Model ----
(***************************************************************************)
(* The client-side request / response / cancellation behaviour that the    *)
(* TSRPC documentation (docs/client/use-client.md, api/http-client) states *)
(* for callApi, lastSN, abort, abortByKey and abortAll.                    *)
(*                                                                         *)
(* One client instance.  Every callApi creates a request handle with a new *)
(* SN and an optional abortKey, registers it as pending, and gives the     *)
(* caller a promise.  The transport later starts, and then returns         *)
(* (success, business error, network error) or the request times out; the *)
(* outcome is wrapped in an ApiReturn and handed to the caller unless the  *)
(* request has been cancelled or has settled before.                       *)
(***************************************************************************)
EXTENDS Integers, Sequences, FiniteSets, TLC

\* Number of callApi invocations explored on the client instance.
MaxCalls == 3

\* abortKey values a caller may pass; NoKey is a call without options.abortKey.
Keys == {"X", "Y"}
NoKey == "none"
AbortKeys == Keys \cup {NoKey}

\* The value of an absent optional field.
Undefined == "undefined"

\* What the transport can come back with.
TransportOutcomes == {"succ", "business", "network"}

VARIABLES
    snCounter,    \* the last SN generated by this client
    lastSN,       \* client.lastSN
    handles,      \* sequence of request handles [sn, abortKey, state], in call order
    pendingApis,  \* cancellation registry: SNs registered as pending
    abortGroups,  \* cancellation registry: abortKey -> SNs pending under it
    transport,    \* per call: "notStarted" | "inFlight" | "returned"
    delivered,    \* per call: how many ApiReturn values the caller's then() received
    promise,      \* per call: "unsettled" | "fulfilled" | "rejected"
    lastOp        \* history: the operation or event that produced this state,
                  \* and the ApiReturn it handed to a caller, if any

vars == <<snCounter, lastSN, handles, pendingApis, abortGroups,
          transport, delivered, promise, lastOp>>

clientVars == <<snCounter, lastSN, handles, pendingApis, abortGroups,
                transport, delivered, promise>>

Calls == 1..Len(handles)

----------------------------------------------------------------------------
\* ApiReturn

ApiReturnSucc(res) == [isSucc |-> TRUE, res |-> res, err |-> Undefined]

ApiReturnError(err) == [isSucc |-> FALSE, res |-> Undefined, err |-> err]

\* Every outcome of a call is wrapped into one ApiReturn.
Normalize(outcome) ==
    IF outcome = "succ" THEN ApiReturnSucc("reply") ELSE ApiReturnError(outcome)

\* History record of one step; ret is <<>> or <<the ApiReturn delivered>>.
Op(op, sn, key, ret) == [op |-> op, sn |-> sn, key |-> key, ret |-> ret]

----------------------------------------------------------------------------
Init ==
    /\ snCounter = 0
    /\ lastSN = 0
    /\ handles = <<>>
    /\ pendingApis = {}
    /\ abortGroups = [k \in Keys |-> {}]
    /\ transport = <<>>
    /\ delivered = <<>>
    /\ promise = <<>>
    /\ lastOp = Op("init", 0, NoKey, <<>>)

\* Variant of NextSN: the smallest SN that no pending request holds, so the SN
\* of a completed or cancelled request is handed out again.
NextSNReused ==
    CHOOSE n \in 1..(snCounter + 1) :
        n \notin pendingApis /\ \A m \in 1..(n - 1) : m \in pendingApis

\* Each callApi generates a unique request number.
NextSN == snCounter + 1

\* Variant of Register: nothing is entered in the registry when callApi
\* returns.
RegisterNothing(sn, key) == UNCHANGED <<pendingApis, abortGroups>>

\* The registry entry of a new pending request, made before callApi returns.
Register(sn, key) ==
    /\ pendingApis' = pendingApis \cup {sn}
    /\ abortGroups' = [k \in Keys |->
                         IF k = key THEN abortGroups[k] \cup {sn} ELSE abortGroups[k]]

\* Variant of CallApi: lastSN is read before the counter advances, so it names
\* the call before this one.
CallApiStaleLastSN(key) ==
    /\ Len(handles) < MaxCalls
    /\ LET sn == NextSN IN
        /\ snCounter' = sn
        /\ lastSN' = snCounter
        /\ handles' = Append(handles, [sn |-> sn, abortKey |-> key, state |-> "Pending"])
        /\ Register(sn, key)
    /\ transport' = Append(transport, "notStarted")
    /\ delivered' = Append(delivered, 0)
    /\ promise' = Append(promise, "unsettled")
    /\ lastOp' = Op("callApi", 0, NoKey, <<>>)

CallApi(key) ==
    /\ Len(handles) < MaxCalls
    /\ LET sn == NextSN IN
        /\ snCounter' = sn
        /\ lastSN' = sn
        /\ handles' = Append(handles, [sn |-> sn, abortKey |-> key, state |-> "Pending"])
        /\ Register(sn, key)
    /\ transport' = Append(transport, "notStarted")
    /\ delivered' = Append(delivered, 0)
    /\ promise' = Append(promise, "unsettled")
    /\ lastOp' = Op("callApi", 0, NoKey, <<>>)

----------------------------------------------------------------------------
\* Cancellation

\* The registry forgets the requests in sns.
Unregister(sns) ==
    /\ pendingApis' = pendingApis \ sns
    /\ abortGroups' = [k \in Keys |-> abortGroups[k] \ sns]

\* Variant of Cancel: the promise of a cancelled request is rejected, the way
\* fetch rejects with an AbortError.
CancelRejecting(sns) ==
    /\ handles' = [i \in DOMAIN handles |->
                     IF handles[i].sn \in sns /\ handles[i].state = "Pending"
                     THEN [handles[i] EXCEPT !.state = "Aborted"]
                     ELSE handles[i]]
    /\ promise' = [i \in DOMAIN promise |->
                     IF handles[i].sn \in sns /\ handles[i].state = "Pending"
                     THEN "rejected"
                     ELSE promise[i]]
    /\ Unregister(sns)
    /\ UNCHANGED <<snCounter, lastSN, transport, delivered>>

\* Cancel the registered requests in sns: their handles become Aborted and
\* the promise of each is left as it is, neither resolved nor rejected.
Cancel(sns) ==
    /\ handles' = [i \in DOMAIN handles |->
                     IF handles[i].sn \in sns /\ handles[i].state = "Pending"
                     THEN [handles[i] EXCEPT !.state = "Aborted"]
                     ELSE handles[i]]
    /\ Unregister(sns)
    /\ UNCHANGED <<snCounter, lastSN, transport, delivered, promise>>

\* Variant of Abort: the request sn is marked Aborted without looking whether
\* it is still pending.
AbortUnchecked(sn) ==
    /\ handles' = [i \in DOMAIN handles |->
                     IF handles[i].sn = sn
                     THEN [handles[i] EXCEPT !.state = "Aborted"]
                     ELSE handles[i]]
    /\ Unregister({sn})
    /\ lastOp' = Op("abort", sn, NoKey, <<>>)
    /\ UNCHANGED <<snCounter, lastSN, transport, delivered, promise>>

\* client.abort(sn): cancels the request sn if it has not returned yet.
Abort(sn) ==
    /\ Cancel(IF sn \in pendingApis THEN {sn} ELSE {})
    /\ lastOp' = Op("abort", sn, NoKey, <<>>)

\* Variant of AbortByKey: every outstanding request that has an abortKey is
\* cancelled, whatever the key.
AbortByKeyAnyKey(key) ==
    /\ Cancel(UNION {abortGroups[k] : k \in Keys})
    /\ lastOp' = Op("abortByKey", 0, key, <<>>)

\* client.abortByKey(key): cancels all outstanding requests of that abortKey.
AbortByKey(key) ==
    /\ Cancel(abortGroups[key])
    /\ lastOp' = Op("abortByKey", 0, key, <<>>)

\* Variant of AbortAll: only the requests found through the abortKey groups
\* are cancelled, so a request without abortKey stays pending.
AbortAllKeyed ==
    /\ Cancel(UNION {abortGroups[k] : k \in Keys})
    /\ lastOp' = Op("abortAll", 0, NoKey, <<>>)

\* client.abortAll(): cancels all outstanding requests of the client.
AbortAll ==
    /\ Cancel(pendingApis)
    /\ lastOp' = Op("abortAll", 0, NoKey, <<>>)

----------------------------------------------------------------------------
\* Transport and settlement

Event(ret) == Op("event", 0, NoKey, ret)

\* The request of call i is handed to the transport.
StartTransport(i) ==
    /\ transport[i] = "notStarted"
    /\ transport' = [transport EXCEPT ![i] = "inFlight"]
    /\ lastOp' = Event(<<>>)
    /\ UNCHANGED <<snCounter, lastSN, handles, pendingApis, abortGroups,
                   delivered, promise>>

\* The request of call i is outstanding: registered, neither cancelled nor
\* returned.
Outstanding(i) == handles[i].sn \in pendingApis

\* Variant of Deliver: an error is thrown to the caller instead of returned.
DeliverOrThrow(i, ret) ==
    IF ret.isSucc
    THEN /\ delivered' = [delivered EXCEPT ![i] = @ + 1]
         /\ promise' = [promise EXCEPT ![i] = "fulfilled"]
         /\ lastOp' = Event(<<ret>>)
    ELSE /\ promise' = [promise EXCEPT ![i] = "rejected"]
         /\ lastOp' = Event(<<>>)
         /\ UNCHANGED delivered

\* The caller of call i receives ret: the promise resolves with it.
Deliver(i, ret) ==
    /\ delivered' = [delivered EXCEPT ![i] = @ + 1]
    /\ promise' = [promise EXCEPT ![i] = "fulfilled"]
    /\ lastOp' = Event(<<ret>>)

\* Variant of Settle: every outcome that reaches the client is processed.
SettleAlways(i, ret) ==
    /\ Deliver(i, ret)
    /\ handles' = [handles EXCEPT ![i].state = "Completed"]
    /\ Unregister({handles[i].sn})

\* Variant of Settle: only a cancelled request is skipped, a request that has
\* settled before is processed again.
SettleUnlessAborted(i, ret) ==
    IF handles[i].state # "Aborted"
    THEN /\ Deliver(i, ret)
         /\ handles' = [handles EXCEPT ![i].state = "Completed"]
         /\ Unregister({handles[i].sn})
    ELSE /\ lastOp' = Event(<<>>)
         /\ UNCHANGED <<handles, pendingApis, abortGroups, delivered, promise>>

\* An outcome for call i reaches the client.  A request that is no longer
\* outstanding (cancelled, or settled before) is not processed.
Settle(i, ret) ==
    IF Outstanding(i)
    THEN /\ Deliver(i, ret)
         /\ handles' = [handles EXCEPT ![i].state = "Completed"]
         /\ Unregister({handles[i].sn})
    ELSE /\ lastOp' = Event(<<>>)
         /\ UNCHANGED <<handles, pendingApis, abortGroups, delivered, promise>>

\* The transport of call i comes back: response, business error or network error.
Response(i, outcome) ==
    /\ transport[i] = "inFlight"
    /\ transport' = [transport EXCEPT ![i] = "returned"]
    /\ Settle(i, Normalize(outcome))
    /\ UNCHANGED <<snCounter, lastSN>>

\* The time limit of call i (HttpOptions.timeout) passes before its transport
\* has come back.  A client without a time limit is the case where this never
\* happens.
Timeout(i) ==
    /\ transport[i] = "inFlight"
    /\ Settle(i, Normalize("timeout"))
    /\ UNCHANGED <<snCounter, lastSN, transport>>

----------------------------------------------------------------------------
Next ==
    \/ \E key \in AbortKeys : CallApi(key)
    \/ \E sn \in 1..MaxCalls : Abort(sn)
    \/ \E key \in Keys : AbortByKey(key)
    \/ AbortAll
    \/ \E i \in Calls : StartTransport(i)
    \/ \E i \in Calls, outcome \in TransportOutcomes : Response(i, outcome)
    \/ \E i \in Calls : Timeout(i)

Spec == Init /\ [][Next]_vars

----------------------------------------------------------------------------
\* Properties

Last == Len(handles)

\* An ApiReturn with exactly one of res and err present, as isSucc says.
WellFormed(r) ==
    \/ r.isSucc = TRUE /\ r.res # Undefined /\ r.err = Undefined
    \/ r.isSucc = FALSE /\ r.err # Undefined /\ r.res = Undefined

\* The request of call i is in the registry under its SN and its abortKey.
Registered(i) ==
    /\ handles[i].sn \in pendingApis
    /\ handles[i].abortKey \in Keys => handles[i].sn \in abortGroups[handles[i].abortKey]

\* The step just taken is a cancellation (abort, abortByKey, abortAll) that
\* names the request of call i.
CancelStepFor(i) ==
    \/ lastOp'.op = "abort" /\ lastOp'.sn = handles[i].sn
    \/ lastOp'.op = "abortByKey" /\ lastOp'.key = handles[i].abortKey
    \/ lastOp'.op = "abortAll"

\* C1: every call that settles has handed exactly one ApiReturn to its caller,
\* through a fulfilled promise; no promise is ever rejected; and every ApiReturn
\* handed over has exactly one of res / err present, matching isSucc.
C1_ExactlyOneApiReturn ==
    /\ \A i \in Calls :
        /\ promise[i] # "rejected"
        /\ delivered[i] <= 1
        /\ handles[i].state = "Completed" => delivered[i] = 1 /\ promise[i] = "fulfilled"
        /\ promise[i] = "fulfilled" => delivered[i] = 1 /\ handles[i].state = "Completed"
    /\ \A n \in DOMAIN lastOp.ret : WellFormed(lastOp.ret[n])

\* All three calls have settled, each with one ApiReturn, the last one handed
\* over being the timeout error.
C1_Witness ==
    /\ Last = 3
    /\ \A i \in Calls : handles[i].state = "Completed" /\ delivered[i] = 1
    /\ lastOp.ret = <<ApiReturnError("timeout")>>

\* C2: abort(sn) on a pending request makes it Aborted, and from then on
\* nothing is delivered to its caller, whatever the transport does afterwards.
C2_AbortSuppressesResponse ==
    [][\A i \in Calls :
        /\ (lastOp'.op = "abort" /\ lastOp'.sn = handles[i].sn
                /\ handles[i].state = "Pending")
             => handles'[i].state = "Aborted" /\ handles[i].sn \notin pendingApis'
        /\ handles[i].state = "Aborted" => delivered[i] = 0 /\ delivered'[i] = 0]_vars

\* abort(1) was called on the only request, while its transport was in flight.
C2_Witness ==
    /\ Last = 1
    /\ lastOp = Op("abort", 1, NoKey, <<>>)
    /\ handles[1].state = "Aborted"
    /\ transport[1] = "inFlight"
    /\ delivered[1] = 0

\* C3: the promise of a cancelled request is neither fulfilled nor rejected.
C3_CancelledNeverSettles ==
    \A i \in Calls : handles[i].state = "Aborted" => promise[i] = "unsettled"

\* A cancelled request whose transport has come back since, its promise still
\* unsettled.
C3_Witness ==
    \E i \in Calls :
        /\ handles[i].state = "Aborted"
        /\ transport[i] = "returned"
        /\ promise[i] = "unsettled"
        /\ lastOp = Event(<<>>)

\* C4: abortByKey(k) makes Aborted exactly the pending requests submitted with
\* abortKey k; every other request keeps its state and stays registered if it
\* was; nothing is delivered, no promise settles, lastSN stays.
C4_AbortByKeyFrame ==
    [][lastOp'.op = "abortByKey" =>
        /\ Len(handles') = Len(handles)
        /\ \A i \in Calls :
            /\ handles'[i].sn = handles[i].sn
            /\ handles'[i].abortKey = handles[i].abortKey
            /\ handles'[i].state =
                 IF handles[i].state = "Pending" /\ handles[i].abortKey = lastOp'.key
                 THEN "Aborted"
                 ELSE handles[i].state
            /\ (handles[i].state = "Pending" /\ handles[i].abortKey # lastOp'.key)
                 => handles[i].sn \in pendingApis'
        /\ UNCHANGED <<snCounter, lastSN, transport, delivered, promise>>]_vars

\* A and B submitted with abortKey "X", C with none; after abortByKey("X") A and
\* B are Aborted and C is Pending.
C4_Witness ==
    /\ Last = 3
    /\ lastOp = Op("abortByKey", 0, "X", <<>>)
    /\ handles[1].abortKey = "X" /\ handles[1].state = "Aborted"
    /\ handles[2].abortKey = "X" /\ handles[2].state = "Aborted"
    /\ handles[3].abortKey = NoKey /\ handles[3].state = "Pending"

\* C5: right after abortAll() no request is Pending: what was Pending is
\* Aborted, what was Completed is Completed.
C5_AbortAllLeavesNoPending ==
    [][lastOp'.op = "abortAll" =>
        /\ pendingApis' = {}
        /\ \A i \in Calls :
            /\ handles'[i].state # "Pending"
            /\ handles[i].state = "Pending" => handles'[i].state = "Aborted"
            /\ handles[i].state = "Completed" => handles'[i].state = "Completed"]_vars

\* abortAll() has just run with one request completed before it, one pending
\* with an abortKey and one pending without.
C5_Witness ==
    /\ Last = 3
    /\ lastOp.op = "abortAll"
    /\ handles[1].state = "Completed"
    /\ handles[2].state = "Aborted" /\ handles[2].abortKey = "Y" /\ transport[2] = "inFlight"
    /\ handles[3].state = "Aborted" /\ handles[3].abortKey = NoKey

\* C6: no two calls of the client have the same SN, settled ones included.
C6_SNUnique ==
    \A i, j \in Calls : i # j => handles[i].sn # handles[j].sn

\* A third call made after the first completed and the second was cancelled.
C6_Witness ==
    /\ Last = 3
    /\ handles[1].state = "Completed"
    /\ handles[2].state = "Aborted"
    /\ handles[3].state = "Pending"
    /\ lastOp.op = "callApi"

\* C7: once a call has been made, lastSN is the SN of the most recent call.
C7_LastSNIsLatestCall ==
    Last > 0 => lastSN = handles[Last].sn

\* After the second call, the first call completed and the second was
\* cancelled; lastSN still names the second call.
C7_Witness ==
    /\ Last = 2
    /\ handles[1].state = "Completed"
    /\ handles[2].state = "Aborted"
    /\ lastSN = handles[2].sn
    /\ lastOp.op = "abort"

\* C8: abort(sn) on a request that is Completed or Aborted changes nothing of
\* the client.
C8_AbortSettledIsNoOp ==
    [][(lastOp'.op = "abort"
          /\ \E i \in Calls : handles[i].sn = lastOp'.sn /\ handles[i].state # "Pending")
        => UNCHANGED clientVars]_vars

\* abort(sn) has just been called on a request that had completed.
C8_Witness ==
    /\ lastOp.op = "abort"
    /\ \E i \in Calls :
        /\ handles[i].sn = lastOp.sn
        /\ handles[i].state = "Completed"
        /\ delivered[i] = 1

\* C9: a request leaves Pending only for Completed or Aborted, a Completed or
\* Aborted request never changes again, and no caller receives two results.
C9_TerminalStatesFinal ==
    [][\A i \in Calls :
        /\ handles'[i].state \in {"Pending", "Completed", "Aborted"}
        /\ handles[i].state # "Pending" =>
             /\ handles'[i].state = handles[i].state
             /\ delivered'[i] = delivered[i]
             /\ promise'[i] = promise[i]
        /\ delivered'[i] <= 1]_vars

\* The only request timed out, and its transport came back afterwards and was
\* not processed.
C9_Witness ==
    /\ Last = 1
    /\ handles[1].state = "Completed"
    /\ transport[1] = "returned"
    /\ delivered[1] = 1
    /\ lastOp = Event(<<>>)

====
